---- MODULE Spec2Model ----
(***************************************************************************)
(* Model of scripts/generate-icons.py: main() resolves the source path,    *)
(* checks that it exists and calls generate_icons(), which loads the       *)
(* image, normalises it to RGBA, and for every entry of ANDROID_ICONS      *)
(* creates the directory, resamples and saves the two launcher files,      *)
(* then writes the Play Store icon and prints the completion report.       *)
(* Every statement of the script is one step of the process; a library     *)
(* call that can raise (Image.open, the lazy pixel load, os.makedirs,      *)
(* Image.save) either succeeds or raises, and an exception is not caught   *)
(* anywhere, so it ends the process.                                       *)
(***************************************************************************)
EXTENDS Integers, Sequences, FiniteSets, TLC

\* ------------------------------------------------------------------------
\* Bounds
\* ------------------------------------------------------------------------
\* number of successive invocations of the script that are explored
MaxRuns == 2

\* ------------------------------------------------------------------------
\* Paths (a path is the sequence of its components)
\* ------------------------------------------------------------------------
Join(a, b) == a \o <<b>>

NoArg == <<>>

\* the positional argument given on the command line, when there is one
CustomSource == <<"custom.png">>

script_parent == <<"project">>

DefaultSource ==
    Join(Join(Join(Join(Join(script_parent, "app"), "src"), "main"), "assets"),
         "vettid-icon-300.png")

res_dir == Join(Join(Join(Join(script_parent, "app"), "src"), "main"), "res")

assets_dir == Join(Join(Join(Join(script_parent, "app"), "src"), "main"), "assets")

Args == {NoArg, CustomSource}

SourcePaths == {DefaultSource, CustomSource}

\* ------------------------------------------------------------------------
\* The size table and the file names
\* ------------------------------------------------------------------------
\* the table with two entries in the wrong order
ANDROID_ICONS_swapped ==
    << <<"mipmap-hdpi", 72>>,
       <<"mipmap-mdpi", 48>>,
       <<"mipmap-xhdpi", 96>>,
       <<"mipmap-xxhdpi", 144>>,
       <<"mipmap-xxxhdpi", 192>> >>

ANDROID_ICONS ==
    << <<"mipmap-mdpi", 48>>,
       <<"mipmap-hdpi", 72>>,
       <<"mipmap-xhdpi", 96>>,
       <<"mipmap-xxhdpi", 144>>,
       <<"mipmap-xxxhdpi", 192>> >>

\* the list of names without the round icon
LauncherNames_square_only == <<"ic_launcher.png">>

LauncherNames == <<"ic_launcher.png", "ic_launcher_round.png">>

PlayStoreSize == 512

PlayStoreName == "ic_launcher-playstore.png"

playstore_path == Join(assets_dir, PlayStoreName)

OutputDirOf(k) == Join(res_dir, ANDROID_ICONS[k][1])

OutputPathOf(k, n) == Join(OutputDirOf(k), LauncherNames[n])

\* every path the filesystem model keeps a content for: what the table and
\* the names can address, and the paths the layout of the project names
LayoutDirs ==
    {"mipmap-mdpi", "mipmap-hdpi", "mipmap-xhdpi", "mipmap-xxhdpi", "mipmap-xxxhdpi"}

LayoutNames == {"ic_launcher.png", "ic_launcher_round.png"}

FilePaths ==
    {Join(Join(res_dir, d), n) : d \in LayoutDirs, n \in LayoutNames}
        \cup {OutputPathOf(k, n) : k \in 1..Len(ANDROID_ICONS), n \in 1..Len(LauncherNames)}
        \cup {playstore_path}

DirPaths ==
    {Join(res_dir, d) : d \in LayoutDirs}
        \cup {OutputDirOf(k) : k \in 1..Len(ANDROID_ICONS)}
        \cup {assets_dir}

\* ------------------------------------------------------------------------
\* Images and files
\* ------------------------------------------------------------------------
Modes == {"RGB", "L", "RGBA"}

\* width and height of the source images that are explored
SourceDims == {<<48, 48>>, <<300, 300>>, <<640, 480>>}

\* pixel data is the identity of the source it comes from and the chain of
\* operations applied to it
NoPx == [id |-> <<>>, steps |-> <<>>]

NoImage == [mode |-> "none", w |-> 0, h |-> 0, px |-> NoPx]

Step(op, mode, w, h, size) ==
    [op |-> op, mode |-> mode, w |-> w, h |-> h, size |-> size]

\* img.convert('RGBA')
Convert(im) ==
    [mode |-> "RGBA", w |-> im.w, h |-> im.h,
     px |-> [id |-> im.px.id,
             steps |-> Append(im.px.steps, Step("convert", im.mode, im.w, im.h, 0))]]

\* a test that only knows RGB sources
NeedsConvert_rgb_only(im) == im.mode = "RGB"

\* img.mode != 'RGBA'
NeedsConvert(im) == im.mode # "RGBA"

\* a resize that fits the image into size x size keeping its aspect ratio,
\* as Image.thumbnail does
Resize_keep_aspect(im, size) ==
    IF im.w = size /\ im.h = size
    THEN im
    ELSE [mode |-> im.mode,
          w |-> IF im.w >= im.h THEN size ELSE (im.w * size) \div im.h,
          h |-> IF im.h >= im.w THEN size ELSE (im.h * size) \div im.w,
          px |-> [id |-> im.px.id,
                  steps |-> Append(im.px.steps, Step("lanczos", im.mode, im.w, im.h, size))]]

\* img.resize((size, size), Image.LANCZOS): the result is size x size
\* whatever the source's dimensions; an image that already has the target
\* size is returned as a copy
Resize(im, size) ==
    IF im.w = size /\ im.h = size
    THEN im
    ELSE [mode |-> im.mode, w |-> size, h |-> size,
          px |-> [id |-> im.px.id,
                  steps |-> Append(im.px.steps, Step("lanczos", im.mode, im.w, im.h, size))]]

\* the bytes save(path, 'PNG', optimize=True) writes for an image
PNGEncode(im) ==
    [fmt |-> "PNG", mode |-> im.mode, w |-> im.w, h |-> im.h, px |-> im.px,
     complete |-> TRUE]

\* what a save that fails part way may leave behind
Truncated(file) == [file EXCEPT !.complete = FALSE]

Absent == [fmt |-> "none", mode |-> "none", w |-> 0, h |-> 0, px |-> NoPx,
           complete |-> FALSE]

\* what is at a source path: nothing, something Image.open rejects, an image
\* whose header reads but whose pixel data does not, or a valid image
SourceFile(kind, mode, dim) == [kind |-> kind, mode |-> mode, w |-> dim[1], h |-> dim[2]]

SourceFiles ==
    {SourceFile("missing", "none", <<0, 0>>), SourceFile("unopenable", "none", <<0, 0>>)}
        \cup {SourceFile("truncated", m, <<300, 300>>) : m \in Modes}
        \cup {SourceFile("valid", m, d) : m \in Modes, d \in SourceDims}

VARIABLES
    disk,       \* source path -> what is stored there
    argv,       \* the positional argument of this invocation, or NoArg
    pc,         \* the statement the process is at
    source,     \* main: the resolved source path
    img,        \* generate_icons: img
    loaded,     \* whether the pixel data of img has been read
    i,          \* index into ANDROID_ICONS of the for loop
    j,          \* index into the list of names of the inner for loop
    resized,    \* generate_icons: resized / playstore_icon
    dirs,       \* the directories that exist
    fs,         \* output path -> content of the file
    out,        \* what has been printed
    status,     \* exit status of the process, -1 while it runs
    err,        \* the exception that ended the process
    ops,        \* the operations this invocation has executed, in order
    wrote,      \* output path -> content this invocation saved there
    called,     \* whether main has called generate_icons
    run,        \* number of this invocation
    fs0,        \* fs when this invocation started
    dirs0,      \* dirs when this invocation started
    prev        \* how the previous invocation ended

vars == <<disk, argv, pc, source, img, loaded, i, j, resized, dirs, fs, out,
          status, err, ops, wrote, called, run, fs0, dirs0, prev>>

\* ------------------------------------------------------------------------
\* Helpers
\* ------------------------------------------------------------------------
Msg(text, path, size) == [text |-> text, path |-> path, size |-> size]

Op(op, path, size, ok) == [op |-> op, path |-> path, size |-> size, ok |-> ok]

\* a check that never finds the source missing
Exists_always(path) == TRUE

\* os.path.exists(source)
Exists(path) == path \in DOMAIN disk /\ disk[path].kind # "missing"

\* Image.open(source_path) raises
OpenFails(path) == disk[path].kind \in {"missing", "unopenable"}

\* a load that accepts cut-short pixel data (LOAD_TRUNCATED_IMAGES)
LoadFails_never(path) == FALSE

\* reading the pixel data raises; it is read by the first convert or resize
LoadFails(path) == ~loaded /\ disk[path].kind = "truncated"

\* an exception that is caught and ignored: the run goes on
Raise_swallowed(next) == next

\* an exception is caught nowhere: the process ends where it is raised
Raise(next) == "aborted"

NoPrev == [ended |-> "none", source |-> <<>>, fs |-> [p \in FilePaths |-> Absent],
           written |-> {}]

Init ==
    /\ disk \in [SourcePaths -> SourceFiles]
    /\ argv \in Args
    /\ pc = "main"
    /\ source = <<>>
    /\ img = NoImage
    /\ loaded = FALSE
    /\ i = 1
    /\ j = 1
    /\ resized = NoImage
    /\ dirs \in {{}, {assets_dir}, DirPaths}
    /\ fs = [p \in FilePaths |-> Absent]
    /\ out = <<>>
    /\ status = -1
    /\ err = "none"
    /\ ops = <<>>
    /\ wrote = [p \in FilePaths |-> Absent]
    /\ called = FALSE
    /\ run = 1
    /\ fs0 = fs
    /\ dirs0 = dirs
    /\ prev = NoPrev

\* ------------------------------------------------------------------------
\* main()
\* ------------------------------------------------------------------------
Resolve(arg) == IF arg # NoArg THEN arg ELSE DefaultSource

\* lines 67-75: the source does not exist: two messages and sys.exit(1)
MainMissing ==
    /\ pc = "main"
    /\ ~Exists(Resolve(argv))
    /\ source' = Resolve(argv)
    /\ out' = out \o <<Msg("Error: Source image not found", Resolve(argv), 0),
                       Msg("Please provide a high-resolution PNG image", <<>>, 0)>>
    /\ status' = 1
    /\ err' = "SystemExit"
    /\ pc' = "exit"
    /\ UNCHANGED <<disk, argv, img, loaded, i, j, resized, dirs, fs, ops, wrote,
                   called, run, fs0, dirs0, prev>>

\* lines 67-77: the source exists: generate_icons is called
MainCall ==
    /\ pc = "main"
    /\ Exists(Resolve(argv))
    /\ source' = Resolve(argv)
    /\ called' = TRUE
    /\ pc' = "open"
    /\ UNCHANGED <<disk, argv, img, loaded, i, j, resized, dirs, fs, out, status,
                   err, ops, wrote, run, fs0, dirs0, prev>>

\* ------------------------------------------------------------------------
\* generate_icons()
\* ------------------------------------------------------------------------
\* lines 33-34: print, then Image.open reads the header only
Open ==
    /\ pc = "open"
    /\ out' = Append(out, Msg("Loading source image", source, 0))
    /\ IF OpenFails(source)
       THEN /\ pc' = Raise("normalize")
            /\ ops' = Append(ops, Op("open", source, 0, FALSE))
            /\ img' = img
       ELSE /\ pc' = "normalize"
            /\ ops' = Append(ops, Op("open", source, 0, TRUE))
            /\ img' = [mode |-> disk[source].mode, w |-> disk[source].w,
                       h |-> disk[source].h,
                       px |-> [id |-> source, steps |-> <<>>]]
    /\ status' = IF pc' = "aborted" THEN 1 ELSE status
    /\ err' = IF pc' = "aborted" THEN "UnidentifiedImageError" ELSE err
    /\ UNCHANGED <<disk, argv, source, loaded, i, j, resized, dirs, fs, wrote,
                   called, run, fs0, dirs0, prev>>

\* lines 37-40: convert when the mode is not RGBA (convert reads the pixel
\* data), then print
Normalize ==
    /\ pc = "normalize"
    /\ IF NeedsConvert(img)
       THEN IF LoadFails(source)
            THEN /\ pc' = Raise("makedirs")
                 /\ ops' = Append(ops, Op("convert", source, 0, FALSE))
                 /\ UNCHANGED <<img, loaded>>
            ELSE /\ pc' = "makedirs"
                 /\ ops' = Append(ops, Op("convert", source, 0, TRUE))
                 /\ img' = Convert(img)
                 /\ loaded' = TRUE
       ELSE /\ pc' = "makedirs"
            /\ UNCHANGED <<ops, img, loaded>>
    /\ out' = IF pc' = "aborted" THEN out
              ELSE Append(out, Msg("Generating icons in", res_dir, 0))
    /\ status' = IF pc' = "aborted" THEN 1 ELSE status
    /\ err' = IF pc' = "aborted" THEN "OSError" ELSE err
    /\ i' = 1
    /\ UNCHANGED <<disk, argv, source, j, resized, dirs, fs, wrote, called, run,
                   fs0, dirs0, prev>>

\* os.makedirs without exist_ok
MakedirsExisting_strict(exist_ok) == "FileExistsError"

\* os.makedirs(path, exist_ok=True) on a path that is there already
MakedirsExisting(exist_ok) == IF exist_ok THEN "ok" ELSE "FileExistsError"

\* lines 43-44
MakeDirs ==
    /\ pc = "makedirs"
    /\ \E fail \in BOOLEAN :
        LET output_dir == OutputDirOf(i)
            outcome == IF fail THEN "OSError"
                       ELSE IF output_dir \in dirs THEN MakedirsExisting(TRUE)
                       ELSE "ok"
        IN  IF outcome = "ok"
            THEN /\ dirs' = dirs \cup {output_dir}
                 /\ ops' = Append(ops, Op("makedirs", output_dir, 0, TRUE))
                 /\ pc' = "resize"
                 /\ UNCHANGED <<status, err>>
            ELSE /\ ops' = Append(ops, Op("makedirs", output_dir, 0, FALSE))
                 /\ pc' = Raise("resize")
                 /\ status' = IF pc' = "aborted" THEN 1 ELSE status
                 /\ err' = IF pc' = "aborted" THEN outcome ELSE err
                 /\ dirs' = dirs
    /\ UNCHANGED <<disk, argv, source, img, loaded, i, j, resized, fs, out, wrote,
                   called, run, fs0, dirs0, prev>>

\* line 47 (resize reads the pixel data when nothing has read it yet)
ResizeStep ==
    /\ pc = "resize"
    /\ LET size == ANDROID_ICONS[i][2]
       IN  IF LoadFails(source)
           THEN /\ pc' = Raise("save")
                /\ ops' = Append(ops, Op("resize", OutputDirOf(i), size, FALSE))
                /\ UNCHANGED <<resized, loaded>>
           ELSE /\ pc' = "save"
                /\ ops' = Append(ops, Op("resize", OutputDirOf(i), size, TRUE))
                /\ resized' = Resize(img, size)
                /\ loaded' = TRUE
    /\ status' = IF pc' = "aborted" THEN 1 ELSE status
    /\ err' = IF pc' = "aborted" THEN "OSError" ELSE err
    /\ j' = 1
    /\ UNCHANGED <<disk, argv, source, img, i, dirs, fs, out, wrote, called, run,
                   fs0, dirs0, prev>>

\* a round icon that is rendered through a circular mask
SavedImage_masked(n) ==
    IF n = 2
    THEN [resized EXCEPT !.px.steps = Append(@, Step("mask", resized.mode, resized.w, resized.h, 0))]
    ELSE resized

\* the image one iteration of the inner loop saves: resized, for both names
SavedImage(n) == resized

\* save(path, 'PNG', optimize=True): the file is written, or the call raises
\* and leaves the file as it was or cut short
SaveTo(path, im, next) ==
    \E outcome \in {"ok", "untouched", "cut"} :
        /\ fs' = CASE outcome = "ok" -> [fs EXCEPT ![path] = PNGEncode(im)]
                   [] outcome = "untouched" -> fs
                   [] outcome = "cut" -> [fs EXCEPT ![path] = Truncated(PNGEncode(im))]
        /\ wrote' = IF outcome = "ok" THEN [wrote EXCEPT ![path] = PNGEncode(im)]
                    ELSE wrote
        /\ ops' = Append(ops, Op("save", path, im.w, outcome = "ok"))
        /\ pc' = IF outcome = "ok" THEN next ELSE Raise(next)
        /\ status' = IF pc' = "aborted" THEN 1 ELSE status
        /\ err' = IF pc' = "aborted" THEN "OSError" ELSE err

\* lines 50-52
Save ==
    /\ pc = "save"
    /\ SaveTo(OutputPathOf(i, j), SavedImage(j),
              IF j < Len(LauncherNames) THEN "save" ELSE "created")
    /\ j' = IF pc' = "save" THEN j + 1 ELSE j
    /\ UNCHANGED <<disk, argv, source, img, loaded, i, resized, dirs, out, called,
                   run, fs0, dirs0, prev>>

\* line 54, and the for loop's advance
Created ==
    /\ pc = "created"
    /\ out' = Append(out, Msg("Created", Join(OutputDirOf(i), LauncherNames[1]),
                              ANDROID_ICONS[i][2]))
    /\ IF i < Len(ANDROID_ICONS)
       THEN /\ i' = i + 1
            /\ pc' = "makedirs"
       ELSE /\ i' = i
            /\ pc' = "ps_makedirs"
    /\ UNCHANGED <<disk, argv, source, img, loaded, j, resized, dirs, fs, status,
                   err, ops, wrote, called, run, fs0, dirs0, prev>>

\* line 57
PlayStoreMakeDirs ==
    /\ pc = "ps_makedirs"
    /\ \E fail \in BOOLEAN :
        LET outcome == IF fail THEN "OSError"
                       ELSE IF assets_dir \in dirs THEN MakedirsExisting(TRUE)
                       ELSE "ok"
        IN  IF outcome = "ok"
            THEN /\ dirs' = dirs \cup {assets_dir}
                 /\ ops' = Append(ops, Op("makedirs", assets_dir, 0, TRUE))
                 /\ pc' = "ps_resize"
                 /\ UNCHANGED <<status, err>>
            ELSE /\ ops' = Append(ops, Op("makedirs", assets_dir, 0, FALSE))
                 /\ pc' = Raise("ps_resize")
                 /\ status' = IF pc' = "aborted" THEN 1 ELSE status
                 /\ err' = IF pc' = "aborted" THEN outcome ELSE err
                 /\ dirs' = dirs
    /\ UNCHANGED <<disk, argv, source, img, loaded, i, j, resized, fs, out, wrote,
                   called, run, fs0, dirs0, prev>>

\* line 58 (the pixel data has been read by the resize of the first entry)
PlayStoreResize ==
    /\ pc = "ps_resize"
    /\ IF LoadFails(source)
       THEN /\ pc' = Raise("ps_save")
            /\ ops' = Append(ops, Op("resize", assets_dir, PlayStoreSize, FALSE))
            /\ UNCHANGED <<resized, loaded>>
       ELSE /\ pc' = "ps_save"
            /\ ops' = Append(ops, Op("resize", assets_dir, PlayStoreSize, TRUE))
            /\ resized' = Resize(img, PlayStoreSize)
            /\ loaded' = TRUE
    /\ status' = IF pc' = "aborted" THEN 1 ELSE status
    /\ err' = IF pc' = "aborted" THEN "OSError" ELSE err
    /\ UNCHANGED <<disk, argv, source, img, i, j, dirs, fs, out, wrote, called,
                   run, fs0, dirs0, prev>>

\* lines 59-60
PlayStoreSave ==
    /\ pc = "ps_save"
    /\ SaveTo(playstore_path, resized, "ps_created")
    /\ UNCHANGED <<disk, argv, source, img, loaded, i, j, resized, dirs, out,
                   called, run, fs0, dirs0, prev>>

\* line 61
PlayStoreCreated ==
    /\ pc = "ps_created"
    /\ out' = Append(out, Msg("Created", <<PlayStoreName>>, PlayStoreSize))
    /\ pc' = "report"
    /\ UNCHANGED <<disk, argv, source, img, loaded, i, j, resized, dirs, fs,
                   status, err, ops, wrote, called, run, fs0, dirs0, prev>>

\* line 63, then main returns and the process exits with status 0
Report ==
    /\ pc = "report"
    /\ out' = Append(out, Msg("Done! Generated", <<>>, Len(ANDROID_ICONS) * 2 + 1))
    /\ ops' = Append(ops, Op("report", <<>>, Len(ANDROID_ICONS) * 2 + 1, TRUE))
    /\ status' = 0
    /\ pc' = "done"
    /\ UNCHANGED <<disk, argv, source, img, loaded, i, j, resized, dirs, fs, err,
                   wrote, called, run, fs0, dirs0, prev>>

Terminal == {"done", "aborted", "exit"}

\* the developer runs the script again, on the filesystem the last run left
Restart ==
    /\ pc \in Terminal
    /\ run < MaxRuns
    /\ run' = run + 1
    /\ argv' \in Args
    /\ prev' = [ended |-> pc, source |-> source, fs |-> fs,
                written |-> {p \in FilePaths : wrote[p] # Absent}]
    /\ pc' = "main"
    /\ source' = <<>>
    /\ img' = NoImage
    /\ loaded' = FALSE
    /\ i' = 1
    /\ j' = 1
    /\ resized' = NoImage
    /\ out' = <<>>
    /\ status' = -1
    /\ err' = "none"
    /\ ops' = <<>>
    /\ wrote' = [p \in FilePaths |-> Absent]
    /\ called' = FALSE
    /\ fs0' = fs
    /\ dirs0' = dirs
    /\ UNCHANGED <<disk, dirs, fs>>

\* one invocation of the script
NextRun ==
    \/ MainMissing
    \/ MainCall
    \/ Open
    \/ Normalize
    \/ MakeDirs
    \/ ResizeStep
    \/ Save
    \/ Created
    \/ PlayStoreMakeDirs
    \/ PlayStoreResize
    \/ PlayStoreSave
    \/ PlayStoreCreated
    \/ Report

Spec == Init /\ [][NextRun]_vars

\* the process is sequential and never waits: a step that can be taken is taken
FairSpec == Spec /\ WF_vars(NextRun)

\* successive invocations on the same destination directories
InitTwice ==
    /\ Init
    /\ disk[DefaultSource] = SourceFile("valid", "RGB", <<300, 300>>)
    /\ disk[CustomSource] \in {SourceFile("missing", "none", <<0, 0>>),
                               SourceFile("truncated", "RGBA", <<300, 300>>),
                               SourceFile("valid", "L", <<640, 480>>)}
    /\ dirs = {}

Next == NextRun \/ Restart

SpecTwice == InitTwice /\ [][Next]_vars

\* ------------------------------------------------------------------------
\* Properties
\* ------------------------------------------------------------------------
\* the paths this invocation has saved a file to
Written == {p \in FilePaths : wrote[p] # Absent}

\* the paths this invocation has saved a file to, in the order of the saves
WrittenSeq ==
    LET saves == SelectSeq(ops, LAMBDA o : o.op = "save" /\ o.ok)
    IN  [k \in 1..Len(saves) |-> saves[k].path]

IsPrefix(s, t) == Len(s) <= Len(t) /\ \A k \in 1..Len(s) : s[k] = t[k]

\* the layout of section 6 of the specification
LayoutTable ==
    << <<"mipmap-mdpi", 48>>, <<"mipmap-hdpi", 72>>, <<"mipmap-xhdpi", 96>>,
       <<"mipmap-xxhdpi", 144>>, <<"mipmap-xxxhdpi", 192>> >>

LayoutSquare(k) == Join(Join(res_dir, LayoutTable[k][1]), "ic_launcher.png")

LayoutRound(k) == Join(Join(res_dir, LayoutTable[k][1]), "ic_launcher_round.png")

LayoutPlayStore == Join(assets_dir, "ic_launcher-playstore.png")

LayoutPaths ==
    {LayoutSquare(k) : k \in 1..5} \cup {LayoutRound(k) : k \in 1..5}
        \cup {LayoutPlayStore}

LayoutSequence ==
    [n \in 1..11 |->
        IF n = 11 THEN LayoutPlayStore
        ELSE IF n % 2 = 1 THEN LayoutSquare((n + 1) \div 2)
        ELSE LayoutRound(n \div 2)]

LayoutEdge(p) ==
    IF p = LayoutPlayStore THEN 512
    ELSE LET k == CHOOSE k \in 1..5 : p \in {LayoutSquare(k), LayoutRound(k)}
         IN  LayoutTable[k][2]

\* C1: a run on a valid source in which no step fails ends with exactly the
\* 11 paths of the layout written: each of them holds a complete PNG this
\* run saved, and no other path was written or changed.
C1_ExactlyElevenPaths ==
    pc = "done" =>
        /\ Written = LayoutPaths
        /\ Cardinality(Written) = 11
        /\ \A p \in LayoutPaths : fs[p].fmt = "PNG" /\ fs[p].complete
        /\ \A p \in FilePaths \ LayoutPaths : fs[p] = fs0[p]

C1_Witness ==
    /\ pc = "done"
    /\ disk[source].kind = "valid"
    /\ Cardinality(Written) = 11

\* C2: in every state, every file this run has written is square with the
\* edge the layout gives its path (48, 72, 96, 144, 192, and 512 for the
\* Play Store icon), whatever the dimensions of the source.
C2_ExactEdge ==
    \A p \in Written :
        /\ p \in LayoutPaths
        /\ fs[p].w = LayoutEdge(p)
        /\ fs[p].h = LayoutEdge(p)

C2_Witness ==
    /\ pc = "done"
    /\ disk[source].w # disk[source].h
    /\ fs[LayoutPlayStore].w = 512
    /\ fs[LayoutSquare(1)].h = 48

\* C3: once both launcher files of a table entry have been written, they
\* have the same content, in every later state of the run.
C3_SquareEqualsRound ==
    \A k \in 1..5 :
        (LayoutSquare(k) \in Written /\ LayoutRound(k) \in Written)
            => fs[LayoutSquare(k)] = fs[LayoutRound(k)]

C3_Witness ==
    /\ pc = "done"
    /\ \A k \in 1..5 : LayoutSquare(k) \in Written /\ LayoutRound(k) \in Written
    /\ fs[LayoutSquare(3)] = fs[LayoutRound(3)]
    /\ fs[LayoutSquare(3)].complete

HasOp(name) == \E k \in 1..Len(ops) : ops[k].op = name /\ ops[k].ok

\* C4: every written file is RGBA whatever the mode of the source; the image
\* is converted exactly when its mode is not RGBA, the conversion precedes
\* every resample, and every resample and save works on the RGBA image.
C4_AlwaysRGBA ==
    /\ \A p \in Written : fs[p].mode = "RGBA"
    /\ pc \in {"makedirs", "resize", "save", "created", "ps_makedirs", "ps_resize",
               "ps_save", "ps_created", "report", "done"}
         => /\ HasOp("convert") <=> disk[source].mode # "RGBA"
            /\ img.mode = "RGBA"
    /\ \A a, b \in 1..Len(ops) :
         (ops[a].op = "convert" /\ ops[b].op = "resize") => a < b
    /\ pc \in {"save", "ps_save"} => resized.mode = "RGBA"
    /\ \A p \in Written :
         disk[source].mode # "RGBA"
            => /\ Len(fs[p].px.steps) >= 1
               /\ fs[p].px.steps[1].op = "convert"
               /\ fs[p].px.steps[1].mode = disk[source].mode

C4_Witness ==
    /\ pc = "done"
    /\ disk[source].mode = "L"
    /\ \A p \in LayoutPaths : fs[p].mode = "RGBA"

C4_WitnessNoConversion ==
    /\ pc = "done"
    /\ disk[source].mode = "RGBA"
    /\ ~HasOp("convert")

\* C5: when the resolved source path (the argument if given, else the
\* default path) does not exist, the process exits with status 1 after
\* printing a message that contains that path, generate_icons is not called,
\* and no directory is created and no file written.
C5_MissingSourceExits ==
    LET path == IF argv = NoArg THEN DefaultSource ELSE argv
    IN  (pc # "main" /\ disk[path].kind = "missing") =>
            /\ pc = "exit"
            /\ status = 1
            /\ \E k \in 1..Len(out) :
                 out[k].text = "Error: Source image not found" /\ out[k].path = path
            /\ ~called
            /\ ops = <<>>
            /\ fs = fs0
            /\ dirs = dirs0
            /\ Written = {}

C5_Witness ==
    /\ pc = "exit"
    /\ argv = NoArg
    /\ disk[DefaultSource].kind = "missing"
    /\ disk[CustomSource].kind = "valid"
    /\ status = 1

\* C6: a second run with the same source and the same destination, after a
\* run that completed, writes the same paths with the same contents, and the
\* directories and files that exist already raise no error.
C6_Idempotent ==
    /\ err # "FileExistsError"
    /\ (pc = "done" /\ prev.ended = "done" /\ prev.source = source) =>
            /\ fs = prev.fs
            /\ Written = prev.written
            /\ fs = fs0

C6_Witness ==
    /\ run = 2
    /\ pc = "done"
    /\ prev.ended = "done"
    /\ prev.source = source
    /\ Written = LayoutPaths

\* the directories this invocation has created or found
EnsuredDirs == {ops[k].path : k \in {n \in 1..Len(ops) : ops[n].op = "makedirs" /\ ops[n].ok}}

\* C7: a failed directory creation or file write ends the run at that step:
\* the failed step is the last step executed, no step is executed twice,
\* every file written before it still has the content that was written and
\* every directory is still there, no other path has changed, and the files
\* written are a prefix of the output sequence.
C7_AbortKeepsPrefix ==
    /\ \A k \in 1..Len(ops) : ~ops[k].ok => (k = Len(ops) /\ pc = "aborted")
    /\ \A a, b \in 1..Len(ops) :
         (ops[a].op = ops[b].op /\ ops[a].path = ops[b].path) => a = b
    /\ (pc = "aborted" /\ ops[Len(ops)].op \in {"makedirs", "save"}) =>
         LET failed == ops[Len(ops)]
         IN  /\ ~failed.ok
             /\ IsPrefix(WrittenSeq, LayoutSequence)
             /\ Written = {WrittenSeq[k] : k \in 1..Len(WrittenSeq)}
             /\ failed.op = "save" => failed.path = LayoutSequence[Len(WrittenSeq) + 1]
             /\ \A p \in Written : fs[p] = wrote[p] /\ fs[p].complete
             /\ \A p \in FilePaths \ Written :
                  p # failed.path => fs[p] = fs0[p]
             /\ dirs = dirs0 \cup EnsuredDirs
             /\ failed.op = "makedirs" => fs = [p \in FilePaths |->
                                                 IF p \in Written THEN wrote[p] ELSE fs0[p]]
             /\ fs0 = [p \in FilePaths |-> Absent] =>
                  \E n \in 0..11 :
                      {p \in FilePaths : fs[p] # Absent} = {LayoutSequence[k] : k \in 1..n}

C7_Witness ==
    /\ pc = "aborted"
    /\ ops[Len(ops)].op = "save"
    /\ ~ops[Len(ops)].ok
    /\ Len(WrittenSeq) = 5
    /\ fs[LayoutSquare(1)].complete

C7_WitnessMakedirs ==
    /\ pc = "aborted"
    /\ ops[Len(ops)].op = "makedirs"
    /\ ops[Len(ops)].path = assets_dir
    /\ Cardinality(Written) = 10

\* the output operations in the order of the specification's state machine
OrderAt(n) ==
    IF n <= 20
    THEN LET k == ((n - 1) \div 4) + 1
             d == Join(res_dir, LayoutTable[k][1])
         IN  CASE (n - 1) % 4 = 0 -> <<"makedirs", d, 0>>
               [] (n - 1) % 4 = 1 -> <<"resize", d, LayoutTable[k][2]>>
               [] (n - 1) % 4 = 2 -> <<"save", LayoutSquare(k), LayoutTable[k][2]>>
               [] (n - 1) % 4 = 3 -> <<"save", LayoutRound(k), LayoutTable[k][2]>>
    ELSE CASE n = 21 -> <<"makedirs", assets_dir, 0>>
           [] n = 22 -> <<"resize", assets_dir, 512>>
           [] n = 23 -> <<"save", LayoutPlayStore, 512>>
           [] n = 24 -> <<"report", <<>>, 11>>

OutputOps ==
    LET sel == SelectSeq(ops, LAMBDA o : o.op \in {"makedirs", "resize", "save", "report"})
    IN  [k \in 1..Len(sel) |-> <<sel[k].op, sel[k].path, sel[k].size>>]

\* C8: the output operations run one after the other in table order, within
\* an entry as ensure-directory, resample, save ic_launcher.png, save
\* ic_launcher_round.png; the Play Store icon is written only after the ten
\* launcher files, and the completion report comes last.
C8_TableOrder ==
    /\ Len(OutputOps) <= 24
    /\ \A n \in 1..Len(OutputOps) : OutputOps[n] = OrderAt(n)
    /\ LayoutPlayStore \in Written => Cardinality(Written) = 11
    /\ HasOp("report") =>
         /\ ops[Len(ops)].op = "report"
         /\ out[Len(out)].text = "Done! Generated"
         /\ out[Len(out)].size = 11

C8_Witness ==
    /\ pc = "done"
    /\ Len(OutputOps) = 24
    /\ OutputOps[24][1] = "report"
    /\ OutputOps[9][1] = "makedirs"

Reported == \E k \in 1..Len(out) : out[k].text = "Done! Generated"

C9_Terminal ==
    /\ pc = "done" =>
         /\ Written = LayoutPaths
         /\ \A p \in LayoutPaths : fs[p].complete
         /\ \A k \in 1..Len(ops) : ops[k].ok
         /\ Reported
         /\ status = 0
    /\ pc = "aborted" =>
         /\ Len(ops) >= 1
         /\ ~ops[Len(ops)].ok
         /\ \A k \in 1..(Len(ops) - 1) : ops[k].ok
         /\ ~Reported
         /\ status = 1
    /\ Reported => pc = "done"
    /\ (\E k \in 1..Len(ops) : ~ops[k].ok) => pc = "aborted"

\* C9: every run of generate_icons reaches a terminal state, which is either
\* "all outputs written" (11 files and the report) or "aborted on the first
\* failure" (the failed step is the last one); the report is never printed
\* in a run that aborted.
C9_Terminates ==
    /\ []C9_Terminal
    /\ (called ~> (pc \in {"done", "aborted"}))

C9_Witness ==
    /\ pc = "aborted"
    /\ called
    /\ Cardinality(Written) = 4
    /\ ~Reported

C9_WitnessDone ==
    /\ pc = "done"
    /\ Reported
    /\ Cardinality(Written) = 11

\* C10: with a source that exists but cannot be decoded the run aborts and
\* no output file is ever written: opening and the first resample precede
\* the first save, and at most the first mipmap directory has been created.
C10_NoOutputFromUndecodable ==
    /\ (called /\ disk[Resolve(argv)].kind \in {"unopenable", "truncated"}) =>
         /\ Written = {}
         /\ fs = fs0
         /\ dirs \subseteq dirs0 \cup {Join(res_dir, "mipmap-mdpi")}
         /\ pc \notin {"done", "exit"}
         /\ pc \in Terminal => (pc = "aborted" /\ status = 1)
    /\ \A k \in 1..Len(ops) :
         ops[k].op = "save" =>
            /\ ops[1].op = "open" /\ ops[1].ok
            /\ \E a \in 1..(k - 1) : ops[a].op = "resize" /\ ops[a].ok

C10_Witness ==
    /\ pc = "aborted"
    /\ disk[source].kind = "truncated"
    /\ disk[source].mode = "RGBA"
    /\ Join(res_dir, "mipmap-mdpi") \in dirs \ dirs0
    /\ Written = {}

====
